---- MODULE Spec2Model ----
(***************************************************************************)
(* Model of the notification template loader (src/src/template_loader.py). *)
(*                                                                         *)
(* A TemplateLoader holds a per-language cache of template documents read  *)
(* from <templates_dir>/<language>.json.  get_template resolves a          *)
(* (key, language) pair with fallback to the language "en".                *)
(*                                                                         *)
(* Abstractions: a template file is either absent, not decodable as UTF-8, *)
(* not parseable as JSON, or a JSON object mapping keys to entries; an     *)
(* entry is a JSON object holding some of the fields "title", "message".   *)
(* A message is a sequence of format-string tokens (see Tokens).           *)
(***************************************************************************)
EXTENDS Integers, Sequences, FiniteSets, TLC

VARIABLES
    files,   \* storage: language -> state of <templates_dir>/<language>.json
    cache,   \* TemplateLoader._cache: language -> loaded document
    last,    \* the most recent operation, its arguments and its outcome
    edits,   \* number of storage changes made so far (bounded by MaxEdits)
    attempts, \* history, kept by SpecHistory and SpecThreads: per language,
              \* how often a call tried to load its file since construction
              \* or the last clear_cache (0, 1, or 2 for twice or more)
    global_loader, \* template_loader._global_loader: None or an instance
    loaders, \* the TemplateLoader instances the accessor has constructed, in
             \* order of construction; an instance is named by its position
    threads, \* per thread, its position in the module-level get_template
    config_files, \* storage: directory -> state of <config_dir>/config.json
    config_cache  \* config_loader._config_cache: cache key -> configuration

vars == <<files, cache, last, edits, attempts,
          global_loader, loaders, threads, config_files, config_cache>>

\* The state of the module-level accessor of template_loader.
accessorVars == <<global_loader, loaders, threads>>

\* The state of config_loader.
configVars == <<config_files, config_cache>>

\* ------------------------------------------------------------------ bounds

\* Bound on the number of external changes to the template files.
MaxEdits == 2

\* Bound on the number of tokens of a message in the formatting specification.
MaxLen == 2

\* Bound on the number of TemplateLoader instances the accessor constructs.
MaxLoaders == 3

\* --------------------------------------------------------------- constants

\* Mutant: the fallback language is missing from the list.
SUPPORTED_LANGUAGES_noFallback == <<"ko", "ja", "zh">>

\* TemplateLoader.SUPPORTED_LANGUAGES (a list: its order is observable).
SUPPORTED_LANGUAGES == <<"en", "ko", "ja", "zh">>

\* Mutant: another language is designated as the fallback.
FALLBACK_LANGUAGE_ko == "ko"

\* TemplateLoader.FALLBACK_LANGUAGE
FALLBACK_LANGUAGE == "en"

\* x in list
InList(x, list) == \E i \in 1..Len(list) : list[i] = x

Supported == {SUPPORTED_LANGUAGES[i] : i \in 1..Len(SUPPORTED_LANGUAGES)}

\* Language codes a caller passes: the supported ones and one that is not.
CallLanguages == Supported \cup {"fr"}

\* Keys a caller asks for; only DocKeys occur in documents.
DocKeys == {"tool_completed"}
Keys == DocKeys \cup {"error_occurred"}

\* ---------------------------------------------------------------- entries

EntryA == [title |-> "Done", message |-> <<"Task ", "{name}">>]
EntryB == [title |-> "Fertig", message |-> <<"{name}", " ok">>]
EntryNoTitle == [message |-> <<"Task ", "{name}">>]
EntryNoMessage == [title |-> "Done"]

Entries == {EntryA, EntryB, EntryNoTitle, EntryNoMessage}

\* A document: a mapping from some keys to entries.
Docs == UNION {[S -> Entries] : S \in SUBSET DocKeys}

\* The states of one template file.
Missing == [kind |-> "missing"]
Undecodable == [kind |-> "undecodable"]
BadJson == [kind |-> "badjson"]
Json(doc) == [kind |-> "json", doc |-> doc]

FileStates == {Missing, Undecodable, BadJson} \cup {Json(d) : d \in Docs}

\* ---------------------------------------------------------------- results

Ok(v) == [kind |-> "ok", value |-> v]
Raise(e) == [kind |-> "error", error |-> e]
NoRet == [kind |-> "none"]

EmptyCache == [l \in {} |-> [k \in {} |-> EntryA]]

\* self._cache[language] = doc
CachePut(c, language, doc) ==
    [l \in DOMAIN c \cup {language} |-> IF l = language THEN doc ELSE c[l]]

\* template_file.exists()
Exists(f, language) == f[language].kind # "missing"

\* TemplateLoader._load_template_file: the document, or the exception raised.
\* open(..., encoding="utf-8") + json.load raise UnicodeDecodeError on bytes
\* that are not UTF-8 and json.JSONDecodeError on text that is not JSON.
LoadTemplateFile(f, language) ==
    IF ~Exists(f, language) THEN Raise("FileNotFoundError")
    ELSE IF f[language].kind = "undecodable" THEN Raise("UnicodeDecodeError")
    ELSE IF f[language].kind = "badjson" THEN Raise("JSONDecodeError")
    ELSE Ok(f[language].doc)

\* except (FileNotFoundError, json.JSONDecodeError)
LoadErrorCaught(e) == e \in {"FileNotFoundError", "JSONDecodeError"}

\* Mutant: only the fallback language counts as supported.
IsSupported_onlyFallback(language) == language = "en"

\* language not in self.SUPPORTED_LANGUAGES
IsSupported(language) == InList(language, SUPPORTED_LANGUAGES)

\* Mutant: no language ever falls back.
CanFallBack_never(language) == FALSE

\* language != self.FALLBACK_LANGUAGE
CanFallBack(language) == language # FALLBACK_LANGUAGE

\* Mutant: only the title is required.
InvalidStructure_titleOnly(template) == "title" \notin DOMAIN template

\* "title" not in template or "message" not in template
InvalidStructure(template) ==
    "title" \notin DOMAIN template \/ "message" \notin DOMAIN template

\* Mutant: the cache is never consulted.
IsCached_never(c, language) == FALSE

\* language in self._cache
IsCached(c, language) == language \in DOMAIN c

\* The outcome of a call: what is returned or raised, the cache afterwards,
\* the languages whose file the call tried to load, in order, and the
\* languages get_template was entered with, in order.
Outcome(ret, c, reads) ==
    [ret |-> ret, cache |-> c, reads |-> reads, visits |-> <<>>]

\* An entry of get_template(key, language) that ends as out.
Enter(language, out) == [out EXCEPT !.visits = <<language>> \o @]

\* Mutant: a failed load is remembered as an empty document.
Read_rememberFailure(language, out) ==
    [out EXCEPT !.reads = <<language>> \o @,
                !.cache = CachePut(@, language, [k \in {} |-> EntryA])]

\* The load of language was tried, failed, and the call went on as out.
Read(language, out) == [out EXCEPT !.reads = <<language>> \o @]

\* TemplateLoader.get_template
RECURSIVE get_template(_, _, _, _)
get_template(c, f, key, language) ==
  Enter(language,
    IF ~IsSupported(language)
    THEN IF CanFallBack(language)
         THEN get_template(c, f, key, FALLBACK_LANGUAGE)
         ELSE Outcome(Raise("ValueError: Unsupported language"), c, <<>>)
    ELSE
      LET cached == IsCached(c, language)
          loaded == LoadTemplateFile(f, language)
          c1 == IF cached THEN c ELSE CachePut(c, language, loaded.value)
          reads == IF cached THEN <<>> ELSE <<language>>
      IN IF ~cached /\ loaded.kind = "error"
         THEN IF LoadErrorCaught(loaded.error)
              THEN IF CanFallBack(language)
                   THEN Read(language, get_template(c, f, key, FALLBACK_LANGUAGE))
                   ELSE Outcome(loaded, c, <<language>>)
              ELSE Outcome(loaded, c, <<language>>)
         ELSE IF key \notin DOMAIN c1[language]
         THEN IF CanFallBack(language)
              THEN LET out == get_template(c1, f, key, FALLBACK_LANGUAGE)
                   IN [out EXCEPT !.reads = reads \o @]
              ELSE Outcome(Raise("KeyError"), c1, reads)
         ELSE IF InvalidStructure(c1[language][key])
         THEN Outcome(Raise("ValueError: Invalid template structure"), c1, reads)
         ELSE Outcome(Ok(c1[language][key]), c1, reads))

\* Mutant: only files that parse are listed.
get_available_languages_parsable(f) ==
    SelectSeq(SUPPORTED_LANGUAGES, LAMBDA lang : f[lang].kind = "json")

\* TemplateLoader.get_available_languages
get_available_languages(f) ==
    SelectSeq(SUPPORTED_LANGUAGES, LAMBDA lang : Exists(f, lang))

\* Mutant: the files are loaded, and cached, to see whether they are usable.
get_available_languages_loading(c, f) ==
    LET valid == {l \in Supported : f[l].kind = "json"}
        existing == SelectSeq(SUPPORTED_LANGUAGES, LAMBDA lang : Exists(f, lang))
    IN IF \E l \in Supported : Exists(f, l) /\ l \notin valid
       THEN Outcome(Raise("JSONDecodeError"), c, existing)
       ELSE Outcome(Ok(existing),
                    [l \in DOMAIN c \cup valid |->
                       IF l \in valid THEN f[l].doc ELSE c[l]],
                    existing)

\* loader.get_available_languages() on a loader whose cache is c: the list,
\* the cache afterwards and the files loaded.
get_available_languages_on(c, f) ==
    Outcome(Ok(get_available_languages(f)), c, <<>>)

\* Mutant: the cache is left as it is.
clear_cache_noop(c) == c

\* TemplateLoader.clear_cache
clear_cache(c) == EmptyCache

\* ------------------------------------------------------------- formatting

\* Format-string tokens of a message: literal text, two named replacement
\* fields, a positional field, an attribute field, a lone closing brace and
\* an escaped opening brace.
Tokens == {"Task ", "{name}", "{tool}", "{}", "{name.x}", "} ", "{{"}

\* The name a replacement field looks up in kwargs.
FieldName(tok) ==
    CASE tok = "{name}" -> "name"
      [] tok = "{tool}" -> "tool"
      [] tok = "{name.x}" -> "name"

\* Substitution names and values (**kwargs of get_notification_data).
KwNames == {"name", "tool"}
KwValues == {"build"}
Kwargs == UNION {[S -> KwValues] : S \in SUBSET KwNames}
NoKwargs == [n \in {} |-> "build"]

\* str.format on one token: the text it yields, or the exception it raises.
\* Keyword arguments are strings: they have no attribute x, and there are no
\* positional arguments.
FormatToken(tok, kwargs) ==
    CASE tok = "{{" -> Ok("{")
      [] tok = "} " -> Raise("ValueError")
      [] tok = "{}" -> Raise("IndexError")
      [] tok \in {"{name}", "{tool}"} ->
            IF FieldName(tok) \in DOMAIN kwargs
            THEN Ok(kwargs[FieldName(tok)])
            ELSE Raise("KeyError")
      [] tok = "{name.x}" ->
            IF FieldName(tok) \in DOMAIN kwargs
            THEN Raise("AttributeError")
            ELSE Raise("KeyError")
      [] OTHER -> Ok(tok)

\* message.format(**kwargs): fields are processed left to right and the first
\* failure is raised.
RECURSIVE format(_, _)
format(message, kwargs) ==
    IF message = <<>> THEN Ok(<<>>)
    ELSE LET head == FormatToken(Head(message), kwargs)
             rest == format(Tail(message), kwargs)
         IN IF head.kind = "error" THEN head
            ELSE IF rest.kind = "error" THEN rest
            ELSE Ok(<<head.value>> \o rest.value)

\* except (KeyError, ValueError)
FormatErrorCaught(e) == e \in {"KeyError", "ValueError"}

\* TemplateLoader.get_notification_data
get_notification_data(c, f, key, language, kwargs) ==
    LET out == get_template(c, f, key, language)
    IN IF out.ret.kind = "error" THEN out
       ELSE LET title == out.ret.value.title
                message == out.ret.value.message
                formatted == format(message, kwargs)
                data(m) == Outcome(Ok([title |-> title, message |-> m]),
                                   out.cache, out.reads)
            IN IF kwargs = NoKwargs THEN data(message)
               ELSE IF formatted.kind = "ok" THEN data(formatted.value)
               ELSE IF FormatErrorCaught(formatted.error) THEN data(message)
               ELSE Outcome(formatted, out.cache, out.reads)

\* ---------------------------------------------------------------- actions

Call(op, key, language, kwargs, ret, reads, dropped) ==
    [op |-> op, key |-> key, language |-> language, kwargs |-> kwargs,
     ret |-> ret, reads |-> reads, dropped |-> dropped, visits |-> <<>>]

\* The elements of a sequence.
Range(seq) == {seq[i] : i \in 1..Len(seq)}

\* What the clear_cache call immediately before this one dropped.
JustDropped == IF last.op = "clear_cache" THEN last.dropped ELSE EmptyCache

\* TemplateLoader.__init__ with an empty templates directory.
\* _global_loader = None
None == 0

\* The threads that call the module-level functions.
Threads == {1, 2}

\* A thread that is not inside a call.
IdleThread ==
    [pc |-> "idle", key |-> "", language |-> "", loader |-> None,
     loaded |-> NoRet, ret |-> NoRet]

\* template_loader as imported: no global loader, no instance, no call running.
AccessorInit ==
    /\ global_loader = None
    /\ loaders = <<>>
    /\ threads = [t \in Threads |-> IdleThread]

\* The directories a caller passes to config_loader.
ConfigDirs == {"home", "project"}

\* _config_cache = {}
EmptyConfigCache == [d \in {} |-> [k \in {} |-> ""]]

\* config_loader as imported, over directories that hold no config.json yet.
ConfigInit ==
    /\ config_files = [d \in ConfigDirs |-> Missing]
    /\ config_cache = EmptyConfigCache

Init ==
    /\ files = [l \in Supported |-> Missing]
    /\ cache = EmptyCache
    /\ last = Call("init", "", "", NoKwargs, NoRet, <<>>, EmptyCache)
    /\ edits = 0
    /\ attempts = [l \in Supported |-> 0]
    /\ AccessorInit
    /\ ConfigInit

\* loader.get_template(key, language): its effect on the loader.
GetTemplateCall(key, language) ==
    LET out == get_template(cache, files, key, language)
    IN /\ cache' = out.cache
       /\ last' = [Call("get_template", key, language, NoKwargs, out.ret,
                        out.reads, JustDropped) EXCEPT !.visits = out.visits]
       /\ UNCHANGED <<files, edits, accessorVars, configVars>>

GetTemplate(key, language) ==
    GetTemplateCall(key, language) /\ UNCHANGED attempts

GetAvailableLanguages ==
    LET out == get_available_languages_on(cache, files)
    IN /\ cache' = out.cache
       /\ last' = Call("get_available_languages", "", "", NoKwargs,
                       out.ret, out.reads, EmptyCache)
       /\ UNCHANGED <<files, edits, attempts, accessorVars, configVars>>

ClearCache ==
    /\ cache' = clear_cache(cache)
    /\ last' = Call("clear_cache", "", "", NoKwargs, NoRet, <<>>, cache)
    /\ UNCHANGED <<files, edits, attempts, accessorVars, configVars>>

\* The environment creates, rewrites or deletes <language>.json.
StorageChange(language, content) ==
    /\ edits < MaxEdits
    /\ content # files[language]
    /\ files' = [files EXCEPT ![language] = content]
    /\ edits' = edits + 1
    /\ last' = Call("storage", "", language, NoKwargs, NoRet, <<>>, EmptyCache)
    /\ UNCHANGED <<cache, attempts, accessorVars, configVars>>

Next ==
    \/ \E key \in Keys, language \in CallLanguages : GetTemplate(key, language)
    \/ GetAvailableLanguages
    \/ ClearCache
    \/ \E language \in Supported, content \in FileStates :
          StorageChange(language, content)

Spec == Init /\ [][Next]_vars

\* -------------------------------------------- the specification with history

\* The languages of SpecHistory: the canonical one and one other.
HistoryLanguages == {"en", "ko"}

GetTemplateTracked(key, language) ==
    /\ GetTemplateCall(key, language)
    /\ attempts' = [l \in Supported |->
                       IF l \in Range(last'.reads) /\ attempts[l] < 2
                       THEN attempts[l] + 1
                       ELSE attempts[l]]

ClearCacheTracked ==
    /\ cache' = clear_cache(cache)
    /\ last' = Call("clear_cache", "", "", NoKwargs, NoRet, <<>>, cache)
    /\ attempts' = [l \in Supported |-> 0]
    /\ UNCHANGED <<files, edits, accessorVars, configVars>>

NextHistory ==
    \/ \E key \in Keys, language \in HistoryLanguages :
          GetTemplateTracked(key, language)
    \/ ClearCacheTracked
    \/ \E language \in HistoryLanguages, content \in FileStates :
          StorageChange(language, content)

SpecHistory == Init /\ [][NextHistory]_vars

\* ------------------------------------------------ the module-level accessor

\* get_template_loader(): no templates_dir is passed.
NoDir == "None"

\* TemplateLoader.DEFAULT_TEMPLATES_DIR and a directory a caller passes.
DefaultDir == "templates/notifications"
CustomDir == "custom"

\* The template files of the two directories: they differ in the entry of
\* "en", so that the directory a call used shows in what it returns.
TemplatesIn(dir) ==
    [l \in Supported |->
       IF l = "en"
       THEN Json([k \in DocKeys |-> IF dir = DefaultDir THEN EntryA ELSE EntryB])
       ELSE IF l = "ko" /\ dir = DefaultDir
       THEN Json([k \in DocKeys |-> EntryB])
       ELSE Missing]

\* TemplateLoader.__init__
NewLoader(templates_dir) ==
    [templates_dir |-> IF templates_dir = NoDir THEN DefaultDir ELSE templates_dir,
     cache |-> EmptyCache]

\* What an accessor call leaves: the global, the instances, what it returns,
\* and the instance it used.
Accessed(g, ls, ret, loader) ==
    [global |-> g, loaders |-> ls, ret |-> ret, loader |-> loader]

\* Mutant: an existing global loader is reused whatever directory is passed.
get_template_loader_reuse(g, ls, templates_dir) ==
    IF g = None
    THEN Accessed(Len(ls) + 1, Append(ls, NewLoader(templates_dir)),
                  Ok(Len(ls) + 1), Len(ls) + 1)
    ELSE Accessed(g, ls, Ok(g), g)

\* get_template_loader
get_template_loader(g, ls, templates_dir) ==
    IF g = None \/ templates_dir # NoDir
    THEN Accessed(Len(ls) + 1, Append(ls, NewLoader(templates_dir)),
                  Ok(Len(ls) + 1), Len(ls) + 1)
    ELSE Accessed(g, ls, Ok(g), g)

\* The module-level get_template(key, language)
module_get_template(g, ls, key, language) ==
    LET acc == get_template_loader(g, ls, NoDir)
        me == acc.loader
        out == get_template(acc.loaders[me].cache,
                            TemplatesIn(acc.loaders[me].templates_dir),
                            key, language)
    IN Accessed(acc.global, [acc.loaders EXCEPT ![me].cache = out.cache],
                out.ret, me)

\* The module-level get_notification_data(key, language, **kwargs)
module_get_notification_data(g, ls, key, language, kwargs) ==
    LET acc == get_template_loader(g, ls, NoDir)
        me == acc.loader
        out == get_notification_data(acc.loaders[me].cache,
                                     TemplatesIn(acc.loaders[me].templates_dir),
                                     key, language, kwargs)
    IN Accessed(acc.global, [acc.loaders EXCEPT ![me].cache = out.cache],
                out.ret, me)

\* The record of a call of a module-level function.
GlobalCall(op, templates_dir, key, language, kwargs, acc) ==
    [op |-> op, templates_dir |-> templates_dir, key |-> key,
     language |-> language, kwargs |-> kwargs, ret |-> acc.ret,
     loader |-> acc.loader]

\* A module-level call whose outcome is acc.
AccessorStep(acc, call) ==
    /\ Len(acc.loaders) <= MaxLoaders
    /\ global_loader' = acc.global
    /\ loaders' = acc.loaders
    /\ last' = call
    /\ UNCHANGED <<files, cache, edits, attempts, threads, configVars>>

GetTemplateLoader(templates_dir) ==
    LET acc == get_template_loader(global_loader, loaders, templates_dir)
    IN AccessorStep(acc, GlobalCall("get_template_loader", templates_dir,
                                    "", "", NoKwargs, acc))

ModuleGetTemplate(key, language) ==
    LET acc == module_get_template(global_loader, loaders, key, language)
    IN AccessorStep(acc, GlobalCall("get_template", NoDir, key, language,
                                    NoKwargs, acc))

ModuleGetNotificationData(key, language, kwargs) ==
    LET acc == module_get_notification_data(global_loader, loaders, key,
                                            language, kwargs)
    IN AccessorStep(acc, GlobalCall("get_notification_data", NoDir, key,
                                    language, kwargs, acc))

NextGlobal ==
    \/ \E templates_dir \in {NoDir, CustomDir} : GetTemplateLoader(templates_dir)
    \/ \E key \in Keys, language \in {"en", "ko", "fr"} :
          ModuleGetTemplate(key, language)
    \/ \E key \in DocKeys, language \in {"en", "ko"},
          kwargs \in {NoKwargs, [n \in {"name"} |-> "build"]} :
          ModuleGetNotificationData(key, language, kwargs)

SpecGlobal == Init /\ [][NextGlobal]_vars

\* --------------------------------------------------- concurrent callers
\* Threads call the module-level get_template(key, language). Nothing in
\* template_loader takes a lock, so a thread switch can fall between any two
\* of the steps below, each of which reads or writes shared state at most once.

\* The languages the threads ask for: "ja" has no file in the default directory.
ThreadLanguages == {"en", "ko", "ja"}

\* The thread's record after a step.
Moved(t, pc, changes) ==
    threads' = [threads EXCEPT ![t] = [f \in DOMAIN IdleThread |->
                   IF f = "pc" THEN pc
                   ELSE IF f \in DOMAIN changes THEN changes[f]
                   ELSE threads[t][f]]]

\* No field of the thread changes but its position.
Same == [f \in {} |-> NoRet]

\* The thread enters get_template(key, language) and, in it, get_template_loader().
Begin(t, key, language) ==
    /\ threads[t].pc = "idle"
    /\ Moved(t, "test_global", [key |-> key, language |-> language])
    /\ UNCHANGED <<files, cache, last, edits, attempts, global_loader, loaders,
                   configVars>>

\* if _global_loader is None
TestGlobal(t) ==
    /\ threads[t].pc = "test_global"
    /\ Moved(t, IF global_loader = None THEN "construct" ELSE "return_global", Same)
    /\ UNCHANGED <<files, cache, last, edits, attempts, global_loader, loaders,
                   configVars>>

\* _global_loader = TemplateLoader(templates_dir)
Construct(t) ==
    /\ threads[t].pc = "construct"
    /\ loaders' = Append(loaders, NewLoader(NoDir))
    /\ global_loader' = Len(loaders')
    /\ Moved(t, "return_global", Same)
    /\ UNCHANGED <<files, cache, last, edits, attempts, configVars>>

\* return _global_loader; loader = get_template_loader()
ReturnGlobal(t) ==
    /\ threads[t].pc = "return_global"
    /\ Moved(t, "test_cache", [loader |-> global_loader])
    /\ UNCHANGED <<files, cache, last, edits, attempts, global_loader, loaders,
                   configVars>>

\* loader.get_template up to "if language not in self._cache"; the recursive
\* call for the fallback language starts here again.
TestCache(t) ==
    LET me == threads[t]
    IN /\ me.pc = "test_cache"
       /\ IF ~IsSupported(me.language)
          THEN IF CanFallBack(me.language)
               THEN Moved(t, "test_cache", [language |-> FALLBACK_LANGUAGE])
               ELSE Moved(t, "done",
                          [ret |-> Raise("ValueError: Unsupported language")])
          ELSE Moved(t, IF IsCached(loaders[me.loader].cache, me.language)
                        THEN "lookup" ELSE "load", Same)
       /\ UNCHANGED <<files, cache, last, edits, attempts, global_loader,
                      loaders, configVars>>

\* self._load_template_file(language), and the except clause
Load(t) ==
    LET me == threads[t]
        loaded == LoadTemplateFile(TemplatesIn(loaders[me.loader].templates_dir),
                                   me.language)
    IN /\ me.pc = "load"
       /\ attempts' = [attempts EXCEPT ![me.language] = IF @ < 2 THEN @ + 1 ELSE @]
       /\ IF loaded.kind = "ok"
          THEN Moved(t, "store", [loaded |-> loaded])
          ELSE IF LoadErrorCaught(loaded.error) /\ CanFallBack(me.language)
          THEN Moved(t, "test_cache", [language |-> FALLBACK_LANGUAGE])
          ELSE Moved(t, "done", [ret |-> loaded])
       /\ UNCHANGED <<files, cache, last, edits, global_loader, loaders,
                      configVars>>

\* self._cache[language] = <the document loaded>
Store(t) ==
    LET me == threads[t]
    IN /\ me.pc = "store"
       /\ loaders' = [loaders EXCEPT ![me.loader].cache =
                         CachePut(@, me.language, me.loaded.value)]
       /\ Moved(t, "lookup", Same)
       /\ UNCHANGED <<files, cache, last, edits, attempts, global_loader,
                      configVars>>

\* templates = self._cache[language], the key lookup and the validation
Lookup(t) ==
    LET me == threads[t]
        templates == loaders[me.loader].cache[me.language]
    IN /\ me.pc = "lookup"
       /\ IF me.key \notin DOMAIN templates
          THEN IF CanFallBack(me.language)
               THEN Moved(t, "test_cache", [language |-> FALLBACK_LANGUAGE])
               ELSE Moved(t, "done", [ret |-> Raise("KeyError")])
          ELSE IF InvalidStructure(templates[me.key])
          THEN Moved(t, "done",
                     [ret |-> Raise("ValueError: Invalid template structure")])
          ELSE Moved(t, "done", [ret |-> Ok(templates[me.key])])
       /\ UNCHANGED <<files, cache, last, edits, attempts, global_loader,
                      loaders, configVars>>

\* The call returns to the thread's caller.
Finish(t) ==
    LET me == threads[t]
    IN /\ me.pc = "done"
       /\ last' = [op |-> "get_template", thread |-> t, key |-> me.key,
                   language |-> me.language, ret |-> me.ret,
                   loader |-> me.loader]
       /\ threads' = [threads EXCEPT ![t] = IdleThread]
       /\ UNCHANGED <<files, cache, edits, attempts, global_loader, loaders,
                      configVars>>

NextThreads ==
    \E t \in Threads :
       \/ \E key \in Keys, language \in ThreadLanguages : Begin(t, key, language)
       \/ TestGlobal(t)
       \/ Construct(t)
       \/ ReturnGlobal(t)
       \/ TestCache(t)
       \/ Load(t)
       \/ Store(t)
       \/ Lookup(t)
       \/ Finish(t)

SpecThreads == Init /\ [][NextThreads]_vars

\* ---------------------------------------------------------- config_loader
\* Configuration values are written as strings: "true" is the boolean,
\* "None" is None, the other strings are themselves.

\* get_default_config
get_default_config ==
    [enabled |-> "true", default_type |-> "Information",
     default_duration |-> "Normal", language |-> "en",
     sound_enabled |-> "true", position |-> "top_right"]

\* None, as a value and as the default of get_config_value
PyNone == "None"

\* A value json.dump rejects (a set, an object): TypeError
NotSerializable == "<set>"

\* The keys and values the callers use: "theme" is not a known key.
ConfigKeys == {"language", "theme"}
ConfigValues == {"ko", NotSerializable}

\* The configurations callers pass to save_config and the objects found in
\* a config.json that was written by something else.
ConfigDocs ==
    {[k \in S |-> "ko"] : S \in {{}, {"language"}, {"theme"}}}
    \cup {[k \in {"theme"} |-> NotSerializable]}

\* A config.json that holds valid JSON that is not an object (null, a number).
NotObject == [kind |-> "notobject"]

\* The states of a config.json that was written by something else.
ConfigFileStates ==
    {Missing, Undecodable, BadJson, NotObject}
    \cup {Json(d) : d \in {c \in ConfigDocs : NotSerializable \notin {c[k] : k \in DOMAIN c}}}

\* config_dir = str(Path.home() / ".wsl-toast") when it is None
ConfigDirOf(config_dir) == IF config_dir = NoDir THEN "home" ELSE config_dir

\* cache_key = str(Path(config_dir) / "config.json")
CacheKey(config_dir) == ConfigDirOf(config_dir) \o "/config.json"

\* dict.update / dict.__setitem__
Update(config, over) ==
    [k \in DOMAIN config \cup DOMAIN over |->
       IF k \in DOMAIN over THEN over[k] ELSE config[k]]

\* del _config_cache[cache_key]
CacheDrop(cc, key) == [k \in DOMAIN cc \ {key} |-> cc[k]]

\* load_config returns a configuration.
OkConfig(config) == [kind |-> "ok", config |-> config]

\* No configuration is passed.
NoConfig == [k \in {} |-> ""]

\* What a config_loader call leaves: what it returns or raises, the cache
\* and the files.
ConfigOutcome(ret, cc, cf) == [ret |-> ret, cache |-> cc, files |-> cf]

\* load_config
load_config(cc, cf, config_dir) ==
    LET key == CacheKey(config_dir)
        file == cf[ConfigDirOf(config_dir)]
        config == IF file.kind = "json" THEN Update(get_default_config, file.doc)
                  ELSE get_default_config
    IN IF key \in DOMAIN cc THEN ConfigOutcome(OkConfig(cc[key]), cc, cf)
       ELSE IF file.kind = "undecodable"
       THEN ConfigOutcome(Raise("UnicodeDecodeError"), cc, cf)
       ELSE IF file.kind = "notobject"
       THEN ConfigOutcome(Raise("TypeError"), cc, cf)
       ELSE ConfigOutcome(OkConfig(config),
                          Update(cc, [k \in {key} |-> config]), cf)

\* json.dump accepts the configuration
Serializable(config) == \A k \in DOMAIN config : config[k] # NotSerializable

\* Mutant: the cache entry is kept.
save_config_keepCache(cc, cf, config, config_dir) ==
    LET dir == ConfigDirOf(config_dir)
    IN IF Serializable(config)
       THEN ConfigOutcome(Ok(PyNone), cc, [cf EXCEPT ![dir] = Json(config)])
       ELSE ConfigOutcome(Raise("TypeError"), cc, [cf EXCEPT ![dir] = BadJson])

\* save_config: open(config_file, "w") empties the file and json.dump writes
\* it piece by piece, so a TypeError leaves the beginning of a document.
save_config(cc, cf, config, config_dir) ==
    LET dir == ConfigDirOf(config_dir)
    IN IF Serializable(config)
       THEN ConfigOutcome(Ok(PyNone), CacheDrop(cc, CacheKey(config_dir)),
                          [cf EXCEPT ![dir] = Json(config)])
       ELSE ConfigOutcome(Raise("TypeError"), cc, [cf EXCEPT ![dir] = BadJson])

\* get_config_value
get_config_value(cc, cf, key, config_dir, default) ==
    LET loaded == load_config(cc, cf, config_dir)
    IN IF loaded.ret.kind = "error" THEN loaded
       ELSE [loaded EXCEPT !.ret =
                Ok(IF key \in DOMAIN loaded.ret.config
                   THEN loaded.ret.config[key] ELSE default)]

\* set_config_value: the dictionary load_config returns is the cached one,
\* so config[key] = value changes the cache entry before save_config runs.
set_config_value(cc, cf, key, value, config_dir) ==
    LET loaded == load_config(cc, cf, config_dir)
        config == Update(loaded.ret.config, [k \in {key} |-> value])
        changed == Update(loaded.cache, [k \in {CacheKey(config_dir)} |-> config])
    IN IF loaded.ret.kind = "error" THEN loaded
       ELSE save_config(changed, cf, config, config_dir)

\* reset_config
reset_config(cc, cf, config_dir) ==
    save_config(cc, cf, get_default_config, config_dir)

\* clear_config_cache
clear_config_cache(cc) == EmptyConfigCache

\* The record of a config_loader call.
ConfigCall(op, config_dir, key, value, config, ret) ==
    [op |-> op, config_dir |-> config_dir, key |-> key, value |-> value,
     config |-> config, ret |-> ret]

\* A config_loader call whose outcome is out.
ConfigStep(out, call) ==
    /\ config_cache' = out.cache
    /\ config_files' = out.files
    /\ last' = call
    /\ UNCHANGED <<files, cache, edits, attempts, accessorVars>>

LoadConfig(config_dir) ==
    LET out == load_config(config_cache, config_files, config_dir)
    IN ConfigStep(out, ConfigCall("load_config", config_dir, "", "", NoConfig,
                                  out.ret))

SaveConfig(config, config_dir) ==
    LET out == save_config(config_cache, config_files, config, config_dir)
    IN ConfigStep(out, ConfigCall("save_config", config_dir, "", "", config,
                                  out.ret))

GetConfigValue(key, config_dir, default) ==
    LET out == get_config_value(config_cache, config_files, key, config_dir, default)
    IN ConfigStep(out, ConfigCall("get_config_value", config_dir, key, default,
                                  NoConfig, out.ret))

SetConfigValue(key, value, config_dir) ==
    LET out == set_config_value(config_cache, config_files, key, value, config_dir)
    IN ConfigStep(out, ConfigCall("set_config_value", config_dir, key, value,
                                  NoConfig, out.ret))

ResetConfig(config_dir) ==
    LET out == reset_config(config_cache, config_files, config_dir)
    IN ConfigStep(out, ConfigCall("reset_config", config_dir, "", "",
                                  NoConfig, out.ret))

ClearConfigCache ==
    ConfigStep(ConfigOutcome(Ok(PyNone), clear_config_cache(config_cache),
                             config_files),
               ConfigCall("clear_config_cache", "", "", "", NoConfig, Ok(PyNone)))

\* Something else writes, damages or removes a config.json.
ConfigStorageChange(dir, content) ==
    /\ edits < MaxEdits
    /\ content # config_files[dir]
    /\ config_files' = [config_files EXCEPT ![dir] = content]
    /\ edits' = edits + 1
    /\ last' = ConfigCall("storage", dir, "", "", NoConfig, NoRet)
    /\ UNCHANGED <<files, cache, attempts, accessorVars, config_cache>>

\* The directory arguments of the calls: none (the home directory) or a path.
ConfigArgs == {NoDir, "project"}

NextConfig ==
    \/ \E config_dir \in ConfigArgs : LoadConfig(config_dir)
    \/ \E config \in ConfigDocs, config_dir \in ConfigArgs :
          SaveConfig(config, config_dir)
    \/ \E key \in ConfigKeys, config_dir \in ConfigArgs,
          default \in {PyNone, "fallback"} :
          GetConfigValue(key, config_dir, default)
    \/ \E key \in ConfigKeys, value \in ConfigValues, config_dir \in ConfigArgs :
          SetConfigValue(key, value, config_dir)
    \/ \E config_dir \in ConfigArgs : ResetConfig(config_dir)
    \/ ClearConfigCache
    \/ \E dir \in ConfigDirs, content \in ConfigFileStates :
          ConfigStorageChange(dir, content)

SpecConfig == Init /\ [][NextConfig]_vars

\* ----------------------------------------------------------------- claims

\* The step is a call of op with these arguments (every action sets last).
CallOf(op, key, language) ==
    last'.op = op /\ last'.key = key /\ last'.language = language

\* The loader holds or can load the document of language l.
Held(l) == l \in DOMAIN cache \/ files[l].kind = "json"

\* The document of language l as the loader sees it: its cached copy, else
\* the file.
DocOf(l) == IF l \in DOMAIN cache THEN cache[l] ELSE files[l].doc

WellFormed(entry) == {"title", "message"} \subseteq DOMAIN entry

MalformedTemplate == Raise("ValueError: Invalid template structure")

\* C1: for a supported language L whose document loads and holds a
\* well-formed entry for K, get_template(K, L) returns exactly that entry.
C1_OwnEntry ==
    [][\A k \in Keys, l \in {"en", "ko", "ja", "zh"} :
         (/\ CallOf("get_template", k, l)
          /\ Held(l)
          /\ k \in DOMAIN DocOf(l)
          /\ WellFormed(DocOf(l)[k]))
         => last'.ret = Ok(DocOf(l)[k])]_vars

\* C1 witness: a non-canonical language returned its own entry while en.json
\* holds a different well-formed entry for the same key.
C1_Witness ==
    /\ last.op = "get_template"
    /\ last.language \in {"ko", "ja", "zh"}
    /\ last.ret.kind = "ok"
    /\ last.language \in DOMAIN cache
    /\ files[last.language] = Json(cache[last.language])
    /\ last.key \in DOMAIN cache[last.language]
    /\ last.ret.value = cache[last.language][last.key]
    /\ files["en"].kind = "json"
    /\ last.key \in DOMAIN files["en"].doc
    /\ WellFormed(files["en"].doc[last.key])
    /\ files["en"].doc[last.key] # last.ret.value

\* The case of C2: K is in the en document and not in the document of the
\* supported non-canonical language l.
OnlyCanonical(k, l) ==
    /\ Held("en")
    /\ k \in DOMAIN DocOf("en")
    /\ Held(l)
    /\ k \notin DOMAIN DocOf(l)

\* C2 as stated: a key present in the en document and absent from L's
\* document resolves to the en entry.
C2_Original ==
    [][\A k \in Keys, l \in {"ko", "ja", "zh"} :
         (CallOf("get_template", k, l) /\ OnlyCanonical(k, l))
         => last'.ret = Ok(DocOf("en")[k])]_vars

\* C2 amended: a key present in the en document and absent from L's document
\* resolves to the en entry when that entry has both title and message, and
\* fails with the malformed-template error otherwise.
C2_CanonicalEntry ==
    [][\A k \in Keys, l \in {"ko", "ja", "zh"} :
         (CallOf("get_template", k, l) /\ OnlyCanonical(k, l))
         => last'.ret = IF WellFormed(DocOf("en")[k])
                        THEN Ok(DocOf("en")[k])
                        ELSE MalformedTemplate]_vars

\* C2 witness: L's document is loaded and lacks the key, and the call
\* returned the entry of the en document.
C2_Witness ==
    /\ last.op = "get_template"
    /\ last.language \in {"ko", "ja", "zh"}
    /\ last.language \in DOMAIN cache
    /\ last.key \notin DOMAIN cache[last.language]
    /\ "en" \in DOMAIN cache
    /\ last.key \in DOMAIN cache["en"]
    /\ last.ret = Ok(cache["en"][last.key])

C4_NotFound ==
    [][\A k \in Keys, l \in CallLanguages :
         (/\ CallOf("get_template", k, l)
          /\ Held("en")
          /\ k \notin DOMAIN DocOf("en")
          /\ \/ l \notin {"ko", "ja", "zh"}
             \/ ~Held(l)
             \/ k \notin DOMAIN DocOf(l))
         => last'.ret = Raise("KeyError")]_vars

\* What remains of C4 when the failed loads are those get_template catches
\* (a missing file, text that is not JSON).
NotFound_CaughtLoads ==
    [][\A k \in Keys, l \in CallLanguages :
         (/\ CallOf("get_template", k, l)
          /\ Held("en")
          /\ k \notin DOMAIN DocOf("en")
          /\ \/ l \notin {"ko", "ja", "zh"}
             \/ l \notin DOMAIN cache /\ files[l].kind \in {"missing", "badjson"}
             \/ Held(l) /\ k \notin DOMAIN DocOf(l))
         => last'.ret = Raise("KeyError")]_vars

\* C5: when the entry for K in the document of the supported language being
\* looked up lacks title or message, get_template fails with the
\* malformed-template error and does not fall back: no other language is
\* read or cached.
C5_Malformed ==
    [][\A k \in Keys, l \in {"en", "ko", "ja", "zh"} :
         (/\ CallOf("get_template", k, l)
          /\ Held(l)
          /\ k \in DOMAIN DocOf(l)
          /\ ~WellFormed(DocOf(l)[k]))
         => /\ last'.ret = MalformedTemplate
            /\ DOMAIN cache' = DOMAIN cache \cup {l}
            /\ \A i \in 1..Len(last'.reads) : last'.reads[i] = l]_vars

\* C5 witness: a non-canonical entry lacking a field raised the error while
\* en.json holds a well-formed entry for the key, and en was not loaded.
C5_Witness ==
    /\ last.op = "get_template"
    /\ last.language \in {"ko", "ja", "zh"}
    /\ last.ret = MalformedTemplate
    /\ files["en"].kind = "json"
    /\ last.key \in DOMAIN files["en"].doc
    /\ WellFormed(files["en"].doc[last.key])
    /\ "en" \notin DOMAIN cache

\* C6: a failed load of a supported non-canonical language is absorbed and
\* the call has the outcome of get_template(K, "en"); a failed load of en is
\* raised to the caller.
C6_LoadFailure ==
    [][\A k \in Keys, l \in {"en", "ko", "ja", "zh"} :
         (/\ CallOf("get_template", k, l)
          /\ l \notin DOMAIN cache
          /\ files[l].kind # "json")
         => IF l # "en"
            THEN last'.ret = get_template(cache, files, k, "en").ret
            ELSE /\ last'.ret.kind = "error"
                 /\ last'.ret.error \in {"FileNotFoundError", "JSONDecodeError",
                                         "UnicodeDecodeError"}]_vars

\* What remains of C6 for a missing file and for text that is not JSON.
LoadFailure_CaughtLoads ==
    [][\A k \in Keys, l \in {"ko", "ja", "zh"} :
         (/\ CallOf("get_template", k, l)
          /\ l \notin DOMAIN cache
          /\ files[l].kind \in {"missing", "badjson"})
         => last'.ret = get_template(cache, files, k, "en").ret]_vars

\* The position of a language in the fixed order en, ko, ja, zh.
Rank(l) == CASE l = "en" -> 1 [] l = "ko" -> 2 [] l = "ja" -> 3 [] l = "zh" -> 4

\* C9: get_available_languages returns exactly the supported languages whose
\* file exists at the time of the call, in the order en, ko, ja, zh, without
\* duplicates, whatever the cache holds.
C9_Available ==
    last.op = "get_available_languages"
    => LET r == last.ret.value
       IN /\ {r[i] : i \in 1..Len(r)} =
               {l \in {"en", "ko", "ja", "zh"} : files[l].kind # "missing"}
          /\ \A i, j \in 1..Len(r) : i < j => Rank(r[i]) < Rank(r[j])

\* C9 witness: only en.json and ja.json exist, en is cached, and the call
\* returned <<"en", "ja">>.
C9_Witness ==
    /\ last.op = "get_available_languages"
    /\ last.ret.value = <<"en", "ja">>
    /\ DOMAIN cache = {"en"}

\* C10: clear_cache leaves the cache empty, and the get_template that follows
\* it reads the file again and returns the entry that is on disk.
C10_ClearReloads ==
    [][/\ last'.op = "clear_cache" => DOMAIN cache' = {}
       /\ \A k \in Keys, l \in {"en", "ko", "ja", "zh"} :
            (/\ last.op = "clear_cache"
             /\ CallOf("get_template", k, l)
             /\ files[l].kind = "json"
             /\ k \in DOMAIN files[l].doc
             /\ WellFormed(files[l].doc[k]))
            => /\ last'.ret = Ok(files[l].doc[k])
               /\ Len(last'.reads) > 0
               /\ last'.reads[1] = l]_vars

\* C10 witness: the file was changed after it was cached, the cache was
\* cleared, and the next call returned the new entry, which differs from the
\* one the cleared cache held.
C10_Witness ==
    /\ last.op = "get_template"
    /\ last.language \in DOMAIN last.dropped
    /\ last.key \in DOMAIN last.dropped[last.language]
    /\ files[last.language].kind = "json"
    /\ last.key \in DOMAIN files[last.language].doc
    /\ last.ret = Ok(files[last.language].doc[last.key])
    /\ last.dropped[last.language][last.key] # last.ret.value

\* C11 as stated: a cached language is answered from its cached document
\* whatever storage holds, and no language is read from storage more than
\* once between two cache clears.
C11_Original ==
    [][/\ \A k \in Keys, l \in DOMAIN cache :
            CallOf("get_template", k, l)
            => \A x \in FileStates :
                 last'.ret = get_template(cache, [files EXCEPT ![l] = x], k, l).ret
       /\ \A l \in {"en", "ko", "ja", "zh"} : attempts'[l] <= 1]_vars

\* C11 amended: a cached document is the file's document at load time and
\* stays as it is until clear_cache; a get_template on a cached language is
\* answered from it whatever storage holds and does not read that language's
\* file. (A language whose load failed is read again on a later call.)
C11_CachedUntilClear ==
    [][/\ \A k \in Keys, l \in DOMAIN cache :
            CallOf("get_template", k, l)
            => /\ \A x \in FileStates :
                    last'.ret =
                      get_template(cache, [files EXCEPT ![l] = x], k, l).ret
               /\ l \notin Range(last'.reads)
       /\ \A l \in DOMAIN cache :
            last'.op # "clear_cache"
            => l \in DOMAIN cache' /\ cache'[l] = cache[l]
       /\ \A l \in DOMAIN cache' \ DOMAIN cache :
            files[l] = Json(cache'[l]) /\ attempts'[l] >= 1]_vars

\* C11 witness: a call returned the cached entry of a language whose file was
\* changed or deleted after the load, without reading the file.
C11_Witness ==
    /\ last.op = "get_template"
    /\ last.language \in DOMAIN cache
    /\ files[last.language] # Json(cache[last.language])
    /\ last.reads = <<>>
    /\ last.key \in DOMAIN cache[last.language]
    /\ last.ret = Ok(cache[last.language][last.key])

\* C19: a failed load is not remembered. A get_template(K, L) whose load of
\* L fails leaves L out of the cache, and once L's file is valid a later
\* get_template(K, L), with no clear_cache in between, loads it and returns
\* L's entry.
C19_FailureNotCached ==
    [][\A k \in Keys, l \in {"ko", "ja", "zh"} :
         (CallOf("get_template", k, l) /\ l \notin DOMAIN cache)
         => /\ files[l].kind # "json" => l \notin DOMAIN cache'
            /\ (/\ attempts[l] >= 1
                /\ files[l].kind = "json"
                /\ k \in DOMAIN files[l].doc
                /\ WellFormed(files[l].doc[k]))
               => /\ last'.ret = Ok(files[l].doc[k])
                  /\ l \in Range(last'.reads)
                  /\ l \in DOMAIN cache']_vars

\* C19 witness: since the last clear the file of a non-canonical language was
\* tried twice; the first load failed and this call loaded the file and
\* returned its entry.
C19_Witness ==
    /\ last.op = "get_template"
    /\ last.language \in {"ko", "ja", "zh"}
    /\ attempts[last.language] = 2
    /\ last.language \in Range(last.reads)
    /\ last.language \in DOMAIN cache
    /\ last.key \in DOMAIN cache[last.language]
    /\ last.ret = Ok(cache[last.language][last.key])

\* C14: every get_template ends with a result or an error after at most one
\* fallback step: it is entered with the requested language and then at most
\* once more, with "en"; a lookup on "en" is never followed by another; at
\* most two files are loaded, each at most once.
C14_OneFallback ==
    last.op = "get_template"
    => /\ last.ret.kind \in {"ok", "error"}
       /\ Len(last.visits) \in {1, 2}
       /\ last.visits[1] = last.language
       /\ Len(last.visits) = 2 => last.visits[1] # "en" /\ last.visits[2] = "en"
       /\ Len(last.reads) <= 2
       /\ \A i, j \in 1..Len(last.reads) : i # j => last.reads[i] # last.reads[j]
       /\ Range(last.reads) \subseteq Range(last.visits)

\* C14 witness: a call loaded the file of the requested language, fell back
\* and loaded en.json.
C14_Witness ==
    /\ last.op = "get_template"
    /\ last.visits = <<"ko", "en">>
    /\ last.reads = <<"ko", "en">>

C18_CacheContents ==
    [][/\ DOMAIN cache' \subseteq {"en", "ko", "ja", "zh"}
       /\ \A l \in DOMAIN cache' \ DOMAIN cache :
            /\ last'.op = "get_template"
            /\ l \in Range(last'.reads)
            /\ files[l] = Json(cache'[l])
       /\ \A l \in {"en", "ko", "ja", "zh"} :
            (l \notin DOMAIN cache /\ files[l].kind # "json")
            => l \notin DOMAIN cache'
       /\ last'.op # "clear_cache" => DOMAIN cache \subseteq DOMAIN cache']_vars

\* C18 witness: a call for "ko", whose file fails to load, fell back to "en":
\* en is cached, ko is not.
C18_Witness ==
    /\ last.op = "get_template"
    /\ last.language = "ko"
    /\ last.reads = <<"ko", "en">>
    /\ files["ko"].kind # "json"
    /\ DOMAIN cache = {"en"}

\* C20: get_available_languages leaves the cache as it is, loads no file and
\* succeeds, also when a file's content is malformed.
C20_AvailableFrame ==
    [][last'.op = "get_available_languages"
       => /\ cache' = cache
          /\ last'.reads = <<>>
          /\ last'.ret.kind = "ok"]_vars

\* C20 witness: the call listed a file that is malformed while another
\* language is cached.
C20_Witness ==
    /\ last.op = "get_available_languages"
    /\ last.ret.kind = "ok"
    /\ \E l \in Range(last.ret.value) : files[l].kind \in {"badjson", "undecodable"}
    /\ cache # EmptyCache

\* C12: get_template_loader() creates the global loader, for the default
\* directory, when there is none and otherwise returns the global loader as
\* it is; get_template_loader(dir) always constructs a new instance with an
\* empty cache that becomes the global; the module-level get_template and
\* get_notification_data work on the global loader, the replacement included,
\* and touch no other instance.
C12_GlobalAccessor ==
    [][/\ (last'.op = "get_template_loader" /\ last'.templates_dir = NoDir)
          => /\ global_loader = None
                => /\ loaders' = Append(loaders, [templates_dir |-> DefaultDir,
                                                  cache |-> EmptyCache])
                   /\ global_loader' = Len(loaders')
             /\ global_loader # None
                => global_loader' = global_loader /\ loaders' = loaders
             /\ last'.ret = Ok(global_loader')
       /\ (last'.op = "get_template_loader" /\ last'.templates_dir # NoDir)
          => /\ loaders' = Append(loaders, [templates_dir |-> last'.templates_dir,
                                            cache |-> EmptyCache])
             /\ global_loader' = Len(loaders')
             /\ last'.ret = Ok(global_loader')
       /\ (last'.op \in {"get_template", "get_notification_data"}
           /\ "loader" \in DOMAIN last')
          => /\ global_loader # None => global_loader' = global_loader
             /\ last'.loader = global_loader'
             /\ Len(loaders') = IF global_loader = None THEN 1 ELSE Len(loaders)
             /\ \A i \in 1..Len(loaders) :
                   i # global_loader' => loaders'[i] = loaders[i]
             /\ last'.op = "get_template"
                => last'.ret =
                      get_template(IF global_loader = None THEN EmptyCache
                                   ELSE loaders[global_loader].cache,
                                   TemplatesIn(loaders'[global_loader'].templates_dir),
                                   last'.key, last'.language).ret]_vars

\* C12 witness: the global loader created by a no-argument call and used was
\* replaced by one for the custom directory, and the module-level get_template
\* returned the custom directory's entry.
C12_Witness ==
    /\ last.op = "get_template"
    /\ "loader" \in DOMAIN last
    /\ last.language = "en"
    /\ last.ret = Ok(EntryB)
    /\ Len(loaders) >= 2
    /\ loaders[1].templates_dir = DefaultDir
    /\ loaders[1].cache # EmptyCache
    /\ global_loader = Len(loaders)
    /\ loaders[global_loader].templates_dir = CustomDir

\* The no-argument callers share one global loader: the accessor constructed
\* at most one instance.
OneGlobalLoader == Len(loaders) <= 1

\* A document that can be loaded is loaded at most once: the caches are never
\* cleared in SpecThreads, and the files of "en" and "ko" are valid.
LoadedOnce == \A l \in {"en", "ko"} : attempts[l] <= 1

\* C15: whatever the interleaving of the threads, the no-argument callers get
\* one and the same global loader and no language document is loaded more
\* than once into its cache.
C15_Guarded == OneGlobalLoader /\ LoadedOnce

\* With a single global loader, its documents are loaded at most once.
C15_LoadedOncePerLoader == OneGlobalLoader => LoadedOnce

\* The configuration C13 describes for a config.json in state file.
MergedDefaults(file) ==
    IF file.kind = "json" THEN Update(get_default_config, file.doc)
    ELSE get_default_config

\* C13: load_config(dir) returns the defaults overridden key by key by the
\* object in dir/config.json, and exactly the defaults when the file is
\* missing or is not valid JSON (invalid text, bytes that are not UTF-8).
C13_DefaultsMerge ==
    [][last'.op = "load_config"
       => LET file == config_files[ConfigDirOf(last'.config_dir)]
          IN file.kind # "notobject"
             => last'.ret = OkConfig(MergedDefaults(file))]_vars

\* What holds of C13: a load_config that finds no cache entry and a file
\* that is missing, invalid JSON text or a JSON object returns the merge.
DefaultsMerge_FreshLoads ==
    [][last'.op = "load_config"
       => LET file == config_files[ConfigDirOf(last'.config_dir)]
          IN (/\ CacheKey(last'.config_dir) \notin DOMAIN config_cache
              /\ file.kind \in {"missing", "badjson", "json"})
             => last'.ret = OkConfig(MergedDefaults(file))]_vars

\* C16: when set_config_value(k, v, dir) or save_config(c, dir) has returned,
\* dir has no cache entry and config.json holds what was saved, so that the
\* next load_config(dir) returns the defaults overridden by the file, with v
\* for k (with c's values), and get_config_value(k, dir) returns v.
C16_SavedIsLoaded ==
    [][(last'.op \in {"set_config_value", "save_config"} /\ last'.ret.kind = "ok")
       => LET d == last'.config_dir
              file == config_files'[ConfigDirOf(d)]
              next == load_config(config_cache', config_files', d)
          IN /\ CacheKey(d) \notin DOMAIN config_cache'
             /\ file.kind = "json"
             /\ next.ret = OkConfig(Update(get_default_config, file.doc))
             /\ last'.op = "set_config_value"
                => /\ next.ret.config[last'.key] = last'.value
                   /\ get_config_value(config_cache', config_files', last'.key,
                                       d, PyNone).ret = Ok(last'.value)
             /\ last'.op = "save_config"
                => next.ret = OkConfig(Update(get_default_config, last'.config))]_vars

\* C16 witness: set_config_value("theme", "ko", dir) returned on a directory
\* whose file already held another language: the file holds both, dir is
\* not cached and the other directory is.
C16_Witness ==
    /\ last.op = "set_config_value"
    /\ last.ret.kind = "ok"
    /\ last.key = "theme"
    /\ CacheKey(last.config_dir) \notin DOMAIN config_cache
    /\ config_cache # EmptyConfigCache
    /\ config_files[ConfigDirOf(last.config_dir)]
          = Json(Update(get_default_config,
                        [k \in {"language", "theme"} |-> "ko"]))

\* The set_config_value just made failed while persisting: its load_config
\* succeeded and save_config raised.
SaveFailed ==
    /\ last'.op = "set_config_value"
    /\ last'.ret.kind = "error"
    /\ load_config(config_cache, config_files, last'.config_dir).ret.kind = "ok"

\* C21: when set_config_value(k, v, dir) fails while persisting, the next
\* load_config(dir) returns the configuration that is on disk and neither it
\* nor get_config_value(k, dir) returns the unsaved v.
C21_UnchangedOnError ==
    [][SaveFailed
       => LET d == last'.config_dir
              next == load_config(config_cache', config_files', d)
          IN /\ next.ret = OkConfig(MergedDefaults(config_files'[ConfigDirOf(d)]))
             /\ next.ret.config[last'.key] # last'.value
             /\ get_config_value(config_cache', config_files', last'.key, d,
                                 PyNone).ret # Ok(last'.value)]_vars

\* What holds of C21: a set_config_value that fails before persisting, in
\* its load_config, changes neither the cache nor the file.
UnchangedOnError_FailedLoads ==
    [][(/\ last'.op = "set_config_value"
        /\ last'.ret.kind = "error"
        /\ ~SaveFailed)
       => UNCHANGED <<config_cache, config_files>>]_vars

\* ------------------------------------------ the formatting specification

\* All messages of at most MaxLen tokens.
Messages == UNION {[1..n -> Tokens] : n \in 0..MaxLen}

\* A loader over a directory whose en.json holds one well-formed entry with
\* any message, and whose ko.json is absent or holds its own entry.
InitFormat ==
    /\ \E m \in Messages, ko \in {Missing, Json([k \in DocKeys |-> EntryB])} :
          files = [l \in Supported |->
                     IF l = "en"
                     THEN Json([k \in DocKeys |-> [title |-> "Done", message |-> m]])
                     ELSE IF l = "ko" THEN ko ELSE Missing]
    /\ cache = EmptyCache
    /\ last = Call("init", "", "", NoKwargs, NoRet, <<>>, EmptyCache)
    /\ edits = 0
    /\ attempts = [l \in Supported |-> 0]
    /\ AccessorInit
    /\ ConfigInit

GetNotificationData(key, language, kwargs) ==
    LET out == get_notification_data(cache, files, key, language, kwargs)
    IN /\ cache' = out.cache
       /\ last' = [Call("get_notification_data", key, language, kwargs, out.ret,
                        out.reads, JustDropped) EXCEPT !.visits = out.visits]
       /\ UNCHANGED <<files, edits, attempts, accessorVars, configVars>>

NextFormat ==
    \/ \E key \in Keys, language \in {"en", "ko", "fr"}, kwargs \in Kwargs :
          GetNotificationData(key, language, kwargs)
    \/ ClearCache

SpecFormat == InitFormat /\ [][NextFormat]_vars

\* A token that str.format treats as a replacement field or rejects.
IsPlaceholder(tok) == tok \in {"{name}", "{tool}", "{}", "{name.x}", "} "}

IsNamed(tok) == tok \in {"{name}", "{tool}"}

NameOf(tok) == IF tok = "{name}" THEN "name" ELSE "tool"

\* Every placeholder of the message is a named one that kwargs has a value for.
AllSupplied(message, kwargs) ==
    \A i \in 1..Len(message) :
       IsPlaceholder(message[i])
       => IsNamed(message[i]) /\ NameOf(message[i]) \in DOMAIN kwargs

\* The step is a call get_notification_data(k, l, **kw).
DataCallOf(k, l, kw) ==
    CallOf("get_notification_data", k, l) /\ last'.kwargs = kw

\* C7: get_notification_data returns the title of the resolved entry, with
\* every named placeholder of the message replaced when kwargs has a value for
\* all placeholders, and the unformatted message when it lacks one.
C7_Formatted ==
    [][\A k \in Keys, l \in CallLanguages, kw \in Kwargs :
         LET found == get_template(cache, files, k, l).ret
         IN (DataCallOf(k, l, kw) /\ found.kind = "ok")
            => /\ last'.ret.kind = "ok"
               /\ last'.ret.value.title = found.value.title
               /\ LET raw == found.value.message
                      got == last'.ret.value.message
                  IN IF AllSupplied(raw, kw)
                     THEN /\ Len(got) = Len(raw)
                          /\ \A i \in 1..Len(raw) :
                               IsNamed(raw[i]) => got[i] = kw[NameOf(raw[i])]
                     ELSE got = raw]_vars

\* What remains of C7 for messages without positional or attribute fields.
Formatted_NamedFields ==
    [][\A k \in Keys, l \in CallLanguages, kw \in Kwargs :
         LET found == get_template(cache, files, k, l).ret
         IN (/\ DataCallOf(k, l, kw)
             /\ found.kind = "ok"
             /\ \A i \in 1..Len(found.value.message) :
                  found.value.message[i] \notin {"{}", "{name.x}"})
            => /\ last'.ret.kind = "ok"
               /\ last'.ret.value.title = found.value.title
               /\ LET raw == found.value.message
                      got == last'.ret.value.message
                  IN IF AllSupplied(raw, kw)
                     THEN /\ Len(got) = Len(raw)
                          /\ \A i \in 1..Len(raw) :
                               IsNamed(raw[i]) => got[i] = kw[NameOf(raw[i])]
                     ELSE got = raw]_vars

\* C8: whenever get_template(K, L) succeeds, get_notification_data(K, L, **kw)
\* succeeds too, for every kwargs and every message.
C8_NeverRaises ==
    [][\A k \in Keys, l \in CallLanguages, kw \in Kwargs :
         (/\ DataCallOf(k, l, kw)
          /\ get_template(cache, files, k, l).ret.kind = "ok")
         => last'.ret.kind = "ok"]_vars

====
